---- MODULE Spec2Model ----
(***************************************************************************)
(* A model of parse-vdv-chipcard.py: the BER-TLV parser and its            *)
(* navigation operations (class BerTlv), the field decoder (class          *)
(* VdvKaDecoder), the chained read (read_chained_data), the block printer  *)
(* (pretty_print_block) and the loop over the 'Berechtigungen'.            *)
(*                                                                         *)
(* Python values are modelled as follows.                                  *)
(*  - A byte is a number in 0..255, a byte string a sequence of them.      *)
(*  - A Python list that holds either bytes or [tag,length,value] triples  *)
(*    is a record [raw, sub]: raw holds the bytes, sub the triples, and    *)
(*    the empty list [] is the one value with both empty, as in Python,    *)
(*    where an empty list of bytes and an empty list of triples are equal. *)
(*  - None is a record with isNone = TRUE.                                 *)
(*  - An exception that leaves a function is the name of its class.        *)
(***************************************************************************)
EXTENDS Integers, Sequences, FiniteSets, TLC

VARIABLES
  pc,           \* the position of the program
  data,         \* the bytes handed to BerTlv / pretty_print_block
  bertlv,       \* BerTlv._bertlv of the object t (or m)
  tlvefs_hack,  \* the flag of the last parse
  raised,       \* the exception that left the last operation, "none" if none
  elems,        \* the leaf elements data was encoded from (round trip)
  call,         \* the last navigation call and what it returned
  nber,         \* the loop variable of the loop over the 'Berechtigungen'
  reads,        \* the record selectors passed to read_chained_data so far
  record,       \* read_chained_data: its parameter
  full_data,    \* read_chained_data: its accumulator
  sent,         \* the connection: every transmit so far, request and response
  ret,          \* read_chained_data: what it returned
  sw,           \* <<sw1, sw2>> handed to pretty_print_block
  out,          \* the lines printed so far
  decoded       \* what VdvKaDecoder.decode returned

vars == <<pc, data, bertlv, tlvefs_hack, raised, elems, call, nber, reads,
          record, full_data, sent, ret, sw, out, decoded>>

treeVars  == <<data, bertlv, tlvefs_hack, elems>>
navVars   == <<call, nber, reads>>
chainVars == <<record, full_data, sent, ret>>
blockVars == <<sw, out, decoded>>

(***************************************************************************)
(* Bounds of the model.                                                    *)
(***************************************************************************)
MaxLen == 5        \* longest byte string given to the parser
MaxElems == 2      \* most leaf elements of an encoded sequence
MaxOctets == 2     \* most length octets of a long-form length
MaxEntries == 3    \* most entries of a mixed 'Applikationsverzeichnis'
MaxBer == 17       \* most 'Berechtigung' entries of a uniform one
MaxNext == 4       \* most 'read next' requests of one chained read
MaxItems == 2      \* most elements inside a 'Berechtigung' block's 0xEA

(***************************************************************************)
(* class Tag: the tags the code names.                                     *)
(***************************************************************************)
APPLIKATIONSVERZEICHNIS == 224
VERZ_BERECHTIGUNG == 233
BERECHTIGUNG == 232
BERECHTIGUNG_SEPARATE_DATEN == 234
BERECHTIGUNG_PRODUKTSPEZIFISCH == 133
SCHLUESSELREGISTER_SEPARATE_DATEN == 237
ZEIGER == 192
VERZ_APPLIKATIONSDATEN == 226
VERZ_APPLIKATIONSLOGBUCH == 228
VERZ_KUNDENDATEN == 231
APPLIKATIONSDATEN_STATISCH == 129

\* for nber in range(16)
MaxBerechtigungen == 16

(***************************************************************************)
(* Python lists.                                                           *)
(***************************************************************************)
PyRaw(bytes) == [raw |-> bytes, sub |-> <<>>]
PyNested(nodes) == [raw |-> <<>>, sub |-> nodes]
PyEmpty == [raw |-> <<>>, sub |-> <<>>]
None == [isNone |-> TRUE, bertlv |-> PyEmpty, bytes |-> <<>>]

\* The byte strings over S of length at most n.
ByteSeqs(S, n) == UNION {[1..k -> S] : k \in 0..n}

(***************************************************************************)
(* BerTlv._parse_internal.                                                 *)
(***************************************************************************)
\* The condition of line 207:
\* tag & 0x20 != 0 and tag != 0xED, or tlvefs_hack and tag == 0x85
IsConstructed(tag, hack) ==
  \/ ((tag \div 32) % 2 # 0 /\ tag # SCHLUESSELREGISTER_SEPARATE_DATEN)
  \/ (hack /\ tag = BERECHTIGUNG_PRODUKTSPEZIFISCH)

\* Python integers are unbounded. A length above the number of bytes of the
\* input ends the parse whatever its value (the value cannot be read), so the
\* accumulation stops growing one above Len(bytes).
Saturate(n, bytes) == IF n > Len(bytes) THEN Len(bytes) + 1 ELSE n

\* The same loop without the shift: length = length | next(idata), on bytes
\* that share no bits.
RECURSIVE read_long_length_no_shift(_, _, _, _)
read_long_length_no_shift(bytes, pos, n, length) ==
  IF n = 0 THEN length
  ELSE read_long_length_no_shift(bytes, pos + 1, n - 1,
                                 Saturate(length + bytes[pos], bytes))

\* for k in range(n): length = (length<<8) | next(idata)
RECURSIVE read_long_length(_, _, _, _)
read_long_length(bytes, pos, n, length) ==
  IF n = 0 THEN length
  ELSE read_long_length(bytes, pos + 1, n - 1,
                        Saturate(length * 256 + bytes[pos], bytes))

\* The header at pos: whether tag and length could be read, the length, and
\* the position of the first value byte. ok is FALSE where next(idata) raises
\* StopIteration.
read_header(bytes, pos) ==
  IF pos + 1 > Len(bytes) THEN [ok |-> FALSE, length |-> 0, vstart |-> pos]
  ELSE LET lb == bytes[pos + 1] IN
    IF lb >= 128
    THEN LET n == lb % 128 IN
         IF pos + 1 + n > Len(bytes)
         THEN [ok |-> FALSE, length |-> 0, vstart |-> pos]
         ELSE [ok |-> TRUE,
               length |-> read_long_length(bytes, pos + 2, n, 0),
               vstart |-> pos + 2 + n]
    ELSE [ok |-> TRUE, length |-> lb, vstart |-> pos + 2]

\* The while loop, from the position pos of the iterator with the elements
\* decoded so far. Every StopIteration, at the tag, in the length or in the
\* value, leaves the loop through the one except clause: return decoded.
\* enc is not in the Python triple: it records how many bytes the iterator
\* advanced over the element (tag byte, length octets, value bytes).
RECURSIVE parse_loop(_, _, _, _)
parse_loop(bytes, pos, hack, dec) ==
  LET h == read_header(bytes, pos) IN
  IF ~h.ok \/ h.vstart + h.length - 1 > Len(bytes)
  THEN dec
  ELSE LET tag == bytes[pos]
           value == SubSeq(bytes, h.vstart, h.vstart + h.length - 1)
           node == [tag |-> tag, length |-> h.length,
                    value |-> IF IsConstructed(tag, hack)
                              THEN PyNested(parse_loop(value, 1, hack, <<>>))
                              ELSE PyRaw(value),
                    enc |-> h.vstart + h.length - pos]
       IN parse_loop(bytes, h.vstart + h.length, hack, Append(dec, node))

parse_internal(bytes, hack) == parse_loop(bytes, 1, hack, <<>>)

\* BerTlv._is_nested_tlv: len(value) > 0 and isinstance(value[0], list)
is_nested_tlv(value) == Len(value.sub) > 0

\* BerTlv.__init__
BerTlv(d) ==
  IF d = PyEmpty \/ is_nested_tlv(d) THEN d
  ELSE PyNested(parse_internal(d.raw, FALSE))

(***************************************************************************)
(* BerTlv.get_nth_child, get_child, get_value.                             *)
(***************************************************************************)
\* The for loop of get_nth_child from the i-th triple on, with its counter.
RECURSIVE nth_child_loop(_, _, _, _, _)
nth_child_loop(nodes, i, tag, no, count) ==
  IF i > Len(nodes) THEN None
  ELSE IF nodes[i].tag = tag
       THEN IF count = no /\ is_nested_tlv(nodes[i].value)
            THEN [isNone |-> FALSE, bertlv |-> BerTlv(nodes[i].value),
                  bytes |-> <<>>]
            ELSE nth_child_loop(nodes, i + 1, tag, no, count + 1)
       ELSE nth_child_loop(nodes, i + 1, tag, no, count)

\* The same loop with the counter advanced only over the nested matches.
RECURSIVE nth_child_loop_nested_only(_, _, _, _, _)
nth_child_loop_nested_only(nodes, i, tag, no, count) ==
  IF i > Len(nodes) THEN None
  ELSE IF nodes[i].tag = tag /\ is_nested_tlv(nodes[i].value)
       THEN IF count = no
            THEN [isNone |-> FALSE, bertlv |-> BerTlv(nodes[i].value),
                  bytes |-> <<>>]
            ELSE nth_child_loop_nested_only(nodes, i + 1, tag, no, count + 1)
       ELSE nth_child_loop_nested_only(nodes, i + 1, tag, no, count)

get_nth_child_nested_only(self, tag, no) ==
  nth_child_loop_nested_only(self.sub, 1, tag, no, 0)

get_nth_child(self, tag, no) == nth_child_loop(self.sub, 1, tag, no, 0)

get_child(self, tag) == get_nth_child(self, tag, 0)

\* The for loop of get_value from the i-th triple on.
RECURSIVE value_loop(_, _, _)
value_loop(nodes, i, tag) ==
  IF i > Len(nodes) THEN None
  ELSE IF nodes[i].tag = tag /\ ~is_nested_tlv(nodes[i].value)
       THEN [isNone |-> FALSE, bertlv |-> PyEmpty,
             bytes |-> nodes[i].value.raw]
       ELSE value_loop(nodes, i + 1, tag)

get_value(self, tag) == value_loop(self.sub, 1, tag)

(***************************************************************************)
(* The parser on its own: t = BerTlv(data), then t.parse(data, hack).      *)
(***************************************************************************)
\* The bytes the parser is given: tags with and without the constructed
\* bit, 0xED, 0x85, short lengths and a long-form length octet.
TreeBytes == {0, 1, 2, 129, 133, 232, 237}

NavIdle == call = None /\ nber = 0 /\ reads = <<>>
ChainIdle == record = <<>> /\ full_data = <<>> /\ sent = <<>> /\ ret = None
BlockIdle ==
  /\ sw = <<144, 0>>
  /\ out = <<>>
  /\ decoded = [isNone |-> TRUE, raised |-> "none", result |-> <<>>]

InitTree ==
  /\ pc = "new"
  /\ data \in ByteSeqs(TreeBytes, MaxLen)
  /\ bertlv = PyEmpty
  /\ tlvefs_hack = FALSE
  /\ raised = "none"
  /\ elems = <<>>
  /\ NavIdle /\ ChainIdle /\ BlockIdle

\* t = BerTlv(data)
Construct ==
  /\ pc = "new"
  /\ bertlv' = BerTlv(PyRaw(data))
  /\ tlvefs_hack' = FALSE
  /\ raised' = "none"
  /\ pc' = "parsed"
  /\ UNCHANGED <<data, elems, navVars, chainVars, blockVars>>

\* t.parse(data, hack)
Parse ==
  /\ pc = "parsed"
  /\ \E hack \in BOOLEAN :
       /\ bertlv' = PyNested(parse_internal(data, hack))
       /\ tlvefs_hack' = hack
  /\ raised' = "none"
  /\ pc' = "reparsed"
  /\ UNCHANGED <<data, elems, navVars, chainVars, blockVars>>

NextTree == Construct \/ Parse

SpecTree == InitTree /\ [][NextTree]_vars

(***************************************************************************)
(* The parser's tree: the claims C1, C2 and C8.                            *)
(***************************************************************************)
\* Every triple of a list of triples, at every depth.
RECURSIVE NodesOf(_)
NodesOf(nodes) ==
  UNION {{nodes[i]} \cup NodesOf(nodes[i].value.sub) : i \in 1..Len(nodes)}

\* The classification rule as the specification words it.
RuleConstructed(tag, flag) ==
  \/ (tag \in {t \in 0..255 : (t \div 32) % 2 = 1} /\ tag # 237)
  \/ (flag /\ tag = 133)

\* C1: every element at every depth is constructed exactly when (bit 0x20 is
\* set and the tag is not 0xED) or (the flag is set and the tag is 0x85), and
\* the parse with the flag set differs from the default parse of the same
\* bytes whenever the default parse holds an element with tag 0x85.
C1_ClassifiedAndReparseDiffers ==
  pc = "reparsed" =>
    /\ \A n \in NodesOf(bertlv.sub) :
         /\ is_nested_tlv(n.value) => RuleConstructed(n.tag, tlvefs_hack)
         /\ n.value.raw # <<>> => ~RuleConstructed(n.tag, tlvefs_hack)
    /\ (tlvefs_hack /\ \E n \in NodesOf(parse_internal(data, FALSE)) : n.tag = 133)
         => bertlv # PyNested(parse_internal(data, FALSE))

\* Whether the bytes, and the value of every constructed element in them, end
\* exactly at a tag boundary.
RECURSIVE EndsAtTagBoundary(_, _, _)
EndsAtTagBoundary(bytes, pos, flag) ==
  IF pos > Len(bytes) THEN TRUE
  ELSE LET h == read_header(bytes, pos) IN
       /\ h.ok
       /\ h.vstart + h.length - 1 <= Len(bytes)
       /\ RuleConstructed(bytes[pos], flag) =>
            EndsAtTagBoundary(SubSeq(bytes, h.vstart, h.vstart + h.length - 1),
                              1, flag)
       /\ EndsAtTagBoundary(bytes, h.vstart + h.length, flag)

\* C2: parse returns a tree only when the input, at every level, is exhausted
\* exactly at a tag boundary; an input that ends after a tag byte, inside the
\* length octets or inside a value makes parse fail with a malformed-TLV error.
C2_TruncatedInputFails ==
  pc \in {"parsed", "reparsed"} =>
    (raised = "none" <=> EndsAtTagBoundary(data, 1, tlvefs_hack))

\* The encoded length of a list of triples: tag byte, length octets and value
\* bytes of each.
RECURSIVE SumEnc(_)
SumEnc(nodes) ==
  IF nodes = <<>> THEN 0 ELSE Head(nodes).enc + SumEnc(Tail(nodes))

\* C8: in every tree parse returns, a node's length is the number of bytes of
\* a raw payload and the encoded length of a nested one, and the payload kind
\* the navigation sees is the kind the tag was classified as.
C8_LengthAndKindInvariant ==
  pc \in {"parsed", "reparsed"} =>
    \A n \in NodesOf(bertlv.sub) :
      /\ is_nested_tlv(n.value) <=> RuleConstructed(n.tag, tlvefs_hack)
      /\ RuleConstructed(n.tag, tlvefs_hack) => n.length = SumEnc(n.value.sub)
      /\ ~RuleConstructed(n.tag, tlvefs_hack) => n.length = Len(n.value.raw)

(***************************************************************************)
(* Round trip of leaf elements: the claim C9.                              *)
(***************************************************************************)
LeafTags == {128, 237}
LeafLens == {0, 2, 127, 128, 256}
Fill(n, b) == [i \in 1..n |-> b]

\* n to the power k.
RECURSIVE Pow(_, _)
Pow(n, k) == IF k = 0 THEN 1 ELSE n * Pow(n, k - 1)

\* The k-octet big-endian number of n.
RECURSIVE BigEndian(_, _)
BigEndian(n, k) ==
  IF k = 0 THEN <<>> ELSE Append(BigEndian(n \div 256, k - 1), n % 256)

\* A leaf element: its tag, its value and the form of its length, 0 for the
\* short form and k >= 1 for the long form in k octets.
LeafElems ==
  {e \in [tag : LeafTags, value : {Fill(n, 17) : n \in LeafLens},
          form : 0..MaxOctets] :
     IF e.form = 0 THEN Len(e.value) <= 127
     ELSE Len(e.value) < Pow(256, e.form)}

EncodeElem(e) ==
  <<e.tag>>
  \o (IF e.form = 0 THEN <<Len(e.value)>>
      ELSE <<128 + e.form>> \o BigEndian(Len(e.value), e.form))
  \o e.value

RECURSIVE Encode(_)
Encode(es) == IF es = <<>> THEN <<>> ELSE EncodeElem(Head(es)) \o Encode(Tail(es))

InitLeaves ==
  /\ pc = "new"
  /\ elems \in UNION {[1..k -> LeafElems] : k \in 0..MaxElems}
  /\ data = Encode(elems)
  /\ bertlv = PyEmpty
  /\ tlvefs_hack = FALSE
  /\ raised = "none"
  /\ NavIdle /\ ChainIdle /\ BlockIdle

SpecLeaves == InitLeaves /\ [][NextTree]_vars

\* C9: parsing the encoding of a sequence of leaf elements gives back the
\* tag, the length and the value of each, in order, for a short-form length
\* and for a long-form length in any number of octets.
C9_LeafRoundTrip ==
  pc \in {"parsed", "reparsed"} =>
    /\ Len(bertlv.sub) = Len(elems)
    /\ \A i \in 1..Len(elems) :
         /\ bertlv.sub[i].tag = elems[i].tag
         /\ bertlv.sub[i].length = Len(elems[i].value)
         /\ bertlv.sub[i].value = PyRaw(elems[i].value)

\* A parsed sequence of two elements, the first with the length 256 encoded
\* as 0x82 0x01 0x00, the second after it with a short-form length.
C9_Witness ==
  /\ pc = "parsed"
  /\ Len(elems) = 2
  /\ Len(elems[1].value) = 256 /\ elems[1].form = 2
  /\ SubSeq(data, 2, 4) = <<130, 1, 0>>
  /\ elems[2].form = 0 /\ Len(elems[2].value) = 2
  /\ Len(bertlv.sub) = 2 /\ bertlv.sub[1].length = 256

(***************************************************************************)
(* The loop over the 'Berechtigungen' (lines 372-382) and the navigation   *)
(* of the tree m of the 'Applikationsverzeichnis': the claim C5.           *)
(***************************************************************************)
\* An element with a short-form length.
Wrap(tag, bytes) == <<tag, Len(bytes)>> \o bytes

\* The entries every directory starts with, without which the program ends
\* before the loop (lines 346, 352, 364): the 'Applikationsdaten' with their
\* pointer and the 15 static bytes (appVersion 0x10 at offset 6), and the
\* 'Applikationslogbuch' with its pointer.
DirPrefix ==
  Wrap(VERZ_APPLIKATIONSDATEN,
       Wrap(ZEIGER, <<1>>)
       \o Wrap(APPLIKATIONSDATEN_STATISCH,
               <<0, 0, 0, 1, 0, 2, 16, 0, 0, 0, 0, 0, 0, 0, 0>>))
  \o Wrap(VERZ_APPLIKATIONSLOGBUCH, Wrap(ZEIGER, <<2>>))

\* The kinds of entry that follow: a 'Berechtigung' with its pointer, an
\* empty one, one without a pointer, one with an empty pointer, and an
\* entry of another record family.
EntryKinds == {"ber", "empty", "noptr", "emptyptr", "other"}

DirEntry(kind, i) ==
  CASE kind = "ber"      -> Wrap(VERZ_BERECHTIGUNG, Wrap(ZEIGER, <<16 + i>>))
    [] kind = "empty"    -> Wrap(VERZ_BERECHTIGUNG, <<>>)
    [] kind = "noptr"    -> Wrap(VERZ_BERECHTIGUNG, Wrap(193, <<16 + i>>))
    [] kind = "emptyptr" -> Wrap(VERZ_BERECHTIGUNG, Wrap(ZEIGER, <<>>))
    [] kind = "other"    -> Wrap(VERZ_KUNDENDATEN, Wrap(ZEIGER, <<16 + i>>))

RECURSIVE DirEntries(_, _)
DirEntries(kinds, i) ==
  IF i > Len(kinds) THEN <<>>
  ELSE DirEntry(kinds[i], i) \o DirEntries(kinds, i + 1)

\* The response to SELECT.
Directory(kinds) ==
  Wrap(APPLIKATIONSVERZEICHNIS, DirPrefix \o DirEntries(kinds, 1))

DirKinds ==
  UNION {[1..k -> EntryKinds] : k \in 0..MaxEntries}
  \cup {[i \in 1..k |-> "ber"] : k \in 0..MaxBer}

\* The program at line 372: m = BerTlv(response) was built at line 340.
InitNav ==
  /\ pc = "loop"
  /\ \E kinds \in DirKinds : data = Directory(kinds)
  /\ bertlv = BerTlv(PyRaw(data))
  /\ tlvefs_hack = FALSE
  /\ raised = "none"
  /\ elems = <<>>
  /\ NavIdle /\ ChainIdle /\ BlockIdle

\* One iteration of the loop. None.get_nth_child and None.get_value raise
\* the AttributeError the loop catches; unpacking None raises TypeError and
\* unpacking b'' raises ValueError, which it does not catch.
\* read_chained_data changes the connection only; pretty_print_block prints
\* what the card returned, and may raise on it.
LoopIter ==
  /\ pc = "loop"
  /\ nber < MaxBerechtigungen
  /\ LET app == get_child(bertlv, APPLIKATIONSVERZEICHNIS)
         ber == get_nth_child(app.bertlv, VERZ_BERECHTIGUNG, nber)
         zeiger == get_value(ber.bertlv, ZEIGER)
     IN IF app.isNone \/ ber.isNone
        THEN /\ pc' = "done"
             /\ UNCHANGED <<raised, nber, reads>>
        ELSE IF zeiger.isNone \/ zeiger.bytes = <<>>
        THEN /\ pc' = "crashed"
             /\ raised' = (IF zeiger.isNone THEN "TypeError" ELSE "ValueError")
             /\ UNCHANGED <<nber, reads>>
        ELSE /\ reads' = Append(reads, <<BERECHTIGUNG, zeiger.bytes[1]>>)
             /\ \E exc \in {"none", "StopIteration", "TypeError", "IndexError"} :
                  /\ raised' = exc
                  /\ pc' = (IF exc = "none" THEN "loop" ELSE "crashed")
                  /\ nber' = (IF exc = "none" THEN nber + 1 ELSE nber)
  /\ UNCHANGED <<treeVars, call, chainVars, blockVars>>

\* range(16) is exhausted.
LoopEnd ==
  /\ pc = "loop"
  /\ nber = MaxBerechtigungen
  /\ pc' = "done"
  /\ UNCHANGED <<treeVars, raised, navVars, chainVars, blockVars>>

NavTags == {APPLIKATIONSVERZEICHNIS, VERZ_BERECHTIGUNG, VERZ_KUNDENDATEN, ZEIGER}

\* A call of get_nth_child or get_child on m or on a child of m.
NavCall ==
  /\ pc = "done"
  /\ call = None
  /\ \E self \in {bertlv, get_child(bertlv, APPLIKATIONSVERZEICHNIS).bertlv},
        tag \in NavTags, no \in 0..MaxEntries, op \in {"get_nth_child", "get_child"} :
       /\ op = "get_child" => no = 0
       /\ call' = [isNone |-> FALSE, op |-> op, self |-> self, tag |-> tag,
                   no |-> no,
                   result |-> IF op = "get_child" THEN get_child(self, tag)
                              ELSE get_nth_child(self, tag, no)]
  /\ UNCHANGED <<pc, treeVars, raised, nber, reads, chainVars, blockVars>>

NextNav == LoopIter \/ LoopEnd \/ NavCall

SpecNav == InitNav /\ [][NextNav]_vars

\* The direct children with the tag, in encounter order.
Matching(self, tag) ==
  LET Test(n) == n.tag = tag IN SelectSeq(self.sub, Test)

\* What nthChild(tag, n) is to return: the children of the n-th child with
\* the tag when its payload is a nested sequence, and absent when there are
\* fewer than n+1 or when that child is a leaf.
NthChild(self, tag, n) ==
  LET m == Matching(self, tag) IN
  IF n < Len(m) /\ m[n + 1].value.sub # <<>>
  THEN [isNone |-> FALSE, bertlv |-> m[n + 1].value, bytes |-> <<>>]
  ELSE None

GET_DATA_NEXT == <<16, 202, 1, 240, 2>>
GET_DATA_LAST == <<0, 202, 1, 240, 2>>

\* len(response) < 256
ChunkSize == 256

\* success with the second status byte ignored.
success_sw1_only(sw1, sw2) == sw1 = 144

\* success(sw1, sw2)
success(sw1, sw2) == sw1 = 144 /\ sw2 = 0

\* What the card may answer: an empty, a short or a full payload, and a
\* status word that is 0x9000 or differs from it in either byte.
ChunkLens == {0, 100, ChunkSize}
Payloads == {Fill(n, b) : n \in ChunkLens, b \in {85, 170}}
StatusWords == {<<144, 0>>, <<144, 1>>, <<106, 130>>, <<97, 0>>}
Records == {<<225, 1>>, <<BERECHTIGUNG, 17>>}

\* read_chained_data(connection, record) has been called: full_data = [].
InitChain ==
  /\ pc = "next"
  /\ record \in Records
  /\ full_data = <<>>
  /\ sent = <<>>
  /\ ret = None
  /\ data = <<>> /\ bertlv = PyEmpty /\ tlvefs_hack = FALSE /\ elems = <<>>
  /\ raised = "none"
  /\ NavIdle /\ BlockIdle

\* One pass of the while loop: transmit GET_DATA_NEXT, append the response,
\* return on a status word that is not success, leave the loop on a response
\* shorter than 256 bytes.
TransmitNext ==
  /\ pc = "next"
  /\ Len(sent) < MaxNext
  /\ \E response \in Payloads, s \in StatusWords :
       /\ sent' = Append(sent, [request |-> GET_DATA_NEXT \o record \o <<0>>,
                                response |-> response,
                                sw1 |-> s[1], sw2 |-> s[2]])
       /\ full_data' = full_data \o response
       /\ IF ~success(s[1], s[2])
          THEN /\ ret' = [isNone |-> FALSE, data |-> full_data',
                          sw1 |-> s[1], sw2 |-> s[2]]
               /\ pc' = "returned"
          ELSE /\ ret' = ret
               /\ pc' = (IF Len(response) < ChunkSize THEN "last" ELSE "next")
  /\ UNCHANGED <<record, treeVars, raised, navVars, blockVars>>

\* After the loop: transmit GET_DATA_LAST and return full_data with the
\* status word of that response.
TransmitLast ==
  /\ pc = "last"
  /\ \E response \in Payloads, s \in StatusWords :
       /\ sent' = Append(sent, [request |-> GET_DATA_LAST \o record \o <<0>>,
                                response |-> response,
                                sw1 |-> s[1], sw2 |-> s[2]])
       /\ ret' = [isNone |-> FALSE, data |-> full_data,
                  sw1 |-> s[1], sw2 |-> s[2]]
  /\ pc' = "returned"
  /\ UNCHANGED <<record, full_data, treeVars, raised, navVars, blockVars>>

NextChain == TransmitNext \/ TransmitLast

SpecChain == InitChain /\ [][NextChain]_vars

\* The requests of one chained read, as the card sees them.
IsNextRequest(e) == e.request = <<16, 202, 1, 240, 2, record[1], record[2], 0>>
IsLastRequest(e) == e.request = <<0, 202, 1, 240, 2, record[1], record[2], 0>>
NextRequests == {i \in 1..Len(sent) : IsNextRequest(sent[i])}
LastRequests == {i \in 1..Len(sent) : IsLastRequest(sent[i])}
Succeeded(e) == e.sw1 = 144 /\ e.sw2 = 0

\* The payloads of the 'read next' responses among the first n transmits, in
\* order.
RECURSIVE NextPayloads(_)
NextPayloads(n) ==
  IF n = 0 THEN <<>>
  ELSE NextPayloads(n - 1)
       \o (IF IsNextRequest(sent[n]) THEN sent[n].response ELSE <<>>)

\* C3: every call of read_chained_data that returns has transmitted exactly
\* one 'read last' request, after all its 'read next' requests, also when a
\* 'read next' response carried a status word that is not success.
C3_ExactlyOneLastRequest ==
  pc = "returned" =>
    /\ Cardinality(LastRequests) = 1
    /\ \A i \in NextRequests : \A j \in LastRequests : i < j

\* C4: no 'read next' request follows a response that is shorter than 256
\* bytes or not successful; the call returns the payloads of the 'read next'
\* responses in order, without the payload of the 'read last' response, and
\* the status word of a failed 'read next' response; k full successful
\* chunks and a shorter successful one take exactly k+1 'read next' requests.
C4_ChunksAndStatus ==
  /\ \A i \in 1..Len(sent) : IsNextRequest(sent[i]) \/ IsLastRequest(sent[i])
  /\ \A i \in NextRequests : \A j \in 1..Len(sent) :
       i < j /\ IsNextRequest(sent[j]) =>
         Len(sent[i].response) >= 256 /\ Succeeded(sent[i])
  /\ pc = "returned" =>
       /\ ret.data = NextPayloads(Len(sent))
       /\ \A i \in NextRequests :
            ~Succeeded(sent[i]) =>
              /\ ret.sw1 = sent[i].sw1 /\ ret.sw2 = sent[i].sw2
              /\ i = Len(sent)
       /\ (\A i \in NextRequests : Succeeded(sent[i])) =>
            \E k \in 0..Len(sent) :
              /\ NextRequests = 1..(k + 1)
              /\ \A i \in 1..k : Len(sent[i].response) = 256
              /\ Len(sent[k + 1].response) < 256
              /\ LastRequests = {k + 2}
              /\ Len(sent) = k + 2

\* Three chunks of 256 bytes and one of 100: four 'read next' requests, one
\* 'read last' request, 868 bytes returned.
C4_Witness ==
  /\ pc = "returned"
  /\ Len(sent) = 5
  /\ NextRequests = 1..4 /\ LastRequests = {5}
  /\ \A i \in 1..3 : Len(sent[i].response) = 256
  /\ Len(sent[4].response) = 100
  /\ Len(sent[5].response) = 100
  /\ Len(ret.data) = 868
  /\ ret.sw1 = 144 /\ ret.sw2 = 0

(***************************************************************************)
(* class Tag (lines 32-86) and BerTlv._get_tag_name.                       *)
(***************************************************************************)
\* Tag(tag).name
TagNames ==
  [tag \in 0..255 |->
     CASE tag = 224 -> "APPLIKATIONSVERZEICHNIS"
       [] tag = 225 -> "APPLIKATIONSDATEN"
       [] tag = 226 -> "VERZ_APPLIKATIONSDATEN"
       [] tag = 128 -> "APPLIKATIONSDATEN_DYNAMISCH"
       [] tag = 129 -> "APPLIKATIONSDATEN_STATISCH"
       [] tag = 238 -> "APPLIKATIONSDATEN_SEPARATE_DATEN"
       [] tag = 145 -> "SCHLUESSELVERSIONEN"
       [] tag = 153 -> "AUSGABETRANSAKTIONSKENNUNG"
       [] tag = 227 -> "APPLIKATIONSLOGBUCH"
       [] tag = 228 -> "VERZ_APPLIKATIONSLOGBUCH"
       [] tag = 130 -> "APPLIKATIONSLOGBUCH_STATISCH"
       [] tag = 229 -> "APPLIKATIONSLOGBUCH_SEPARATE_DATEN"
       [] tag = 230 -> "KUNDENDATEN"
       [] tag = 231 -> "VERZ_KUNDENDATEN"
       [] tag = 232 -> "BERECHTIGUNG"
       [] tag = 233 -> "VERZ_BERECHTIGUNG"
       [] tag = 131 -> "BERECHTIGUNG_STATISCH"
       [] tag = 132 -> "BERECHTIGUNG_DYNAMISCH"
       [] tag = 234 -> "BERECHTIGUNG_SEPARATE_DATEN"
       [] tag = 133 -> "BERECHTIGUNG_PRODUKTSPEZIFISCH"
       [] tag = 235 -> "SCHLUESSELREGISTER"
       [] tag = 236 -> "VERZ_SCHLUESSELREGISTER"
       [] tag = 134 -> "SCHLUESSELREGISTER_STATISCH"
       [] tag = 135 -> "SCHLUESSELREGISTER_DYNAMISCH"
       [] tag = 237 -> "SCHLUESSELREGISTER_SEPARATE_DATEN"
       [] tag = 137 -> "ALLGEMEINE_TRANSAKTIONSDATEN"
       [] tag = 247 -> "AUSGABETRANSAKTION_APPLIKATION"
       [] tag = 142 -> "STATUSAENDERUNG_APPLIKATION"
       [] tag = 155 -> "AUSGABE_APPLIKATION_DATEN"
       [] tag = 246 -> "AUSGABETRANSAKTION_BERECHTIGUNG"
       [] tag = 138 -> "TRANSAKTION_PRODUKTSPEZIFISCHER_TEIL"
       [] tag = 141 -> "STATUSAENDERUNG_BERECHTIGUNG"
       [] tag = 154 -> "AUSGABE_BERECHTIGUNG_DATEN"
       [] tag = 241 -> "FAHRTTRANSAKTION"
       [] tag = 139 -> "ALLGEMEINE_FAHRTTRANSAKTIONSDATEN"
       [] tag = 218 -> "TLV_EFS_GRUNDLEGENDE_DATEN"
       [] tag = 219 -> "TLV_EFS_FAHRGAST"
       [] tag = 220 -> "TLV_EFS_LISTE_ORIG_GELTUNGSBEREICH"
       [] tag = 192 -> "ZEIGER"
       [] tag = 195 -> "LETZTE_TRANSAKTION"
       [] tag = 199 -> "INFOTEXT"
       [] tag = 144 -> "PRIORITAETEN"
       [] OTHER -> "???"]

\* "%02x (%s)" % (tag, Tag(tag).name), "%02x (???)" for a tag the enumeration
\* does not hold; "%02x" % tag without names.
get_tag_name(tag) == TagNames[tag]

(***************************************************************************)
(* class VdvKaDecoder (lines 89-164).                                      *)
(***************************************************************************)
\* The keys of _fields.
FieldTags ==
  {128, 129, 130, 199, 145, 153, 137, 155, 142, 154, 141, 134, 131, 132, 219, 220, 195, 139}

\* _fields[tag] after fdef.split("|") and field.split(":"): a data type and a
\* name for each field.
Fields(tag) ==
  CASE tag = 128 ->
         << <<"1", "appStatus">>,
            <<"1", "appSynchronNummer">> >>
    [] tag = 129 ->
         << <<"4", "NmAppInstanznummer">>,
            <<"2", "app.organisationsNummer">>,
            <<"1", "appVersion">>,
            <<"D", "appGueltigkeitsbeginn">>,
            <<"D", "appGueltigkeitsende">> >>
    [] tag = 130 ->
         << <<"2", "logApplikationSeqNummer">> >>
    [] tag = 199 ->
         << <<"S", "Infotext">> >>
    [] tag = 145 ->
         << <<"1", "Version KPV">>,
            <<"1", "Version KKVP">>,
            <<"1", "Version KAUTH">> >>
    [] tag = 153 ->
         << <<"4", "samSequenznummer">>,
            <<"3", "samNummer">> >>
    [] tag = 137 ->
         << <<"2", "logApplikationSeqNummer">>,
            <<"4", "samSequenznummer">>,
            <<"3", "samNummer">>,
            <<"2", "logTransaktionsOperator_ID">>,
            <<"1", "terminalTyp">>,
            <<"2", "terminalNummer">>,
            <<"2", "transkation.organisationsNummer">>,
            <<"D", "logTransaktionsZeitpunkt">>,
            <<"1", "ortTyp">>,
            <<"3", "ortNummer">>,
            <<"2", "ort.organisationsNummer">>,
            <<"1", "logTransaktionsTyp">> >>
    [] tag = 155 ->
         << <<"4", "appProdLogSAMSeqNummer">> >>
    [] tag = 142 ->
         << <<"2", "appLogSeqNummer">>,
            <<"4", "NmAppInstanznummer">>,
            <<"2", "app.organisationsNummer">>,
            <<"1", "alterStatus">>,
            <<"1", "neuerStatus">>,
            <<"1", "appSynchronNummer">>,
            <<"8", "MACKONTROLLE">>,
            <<"1", "Version KKONTROLLE">> >>
    [] tag = 154 ->
         << <<"4", "berProdLogSAMSeqNummer">> >>
    [] tag = 141 ->
         << <<"2", "berLogSeqNummer">>,
            <<"4", "berechtigungNummer">>,
            <<"2", "ber.organisationsNummer">>,
            <<"2", "produktNummer">>,
            <<"2", "produkt.organisationsNummer">>,
            <<"1", "alterStatus">>,
            <<"1", "neuerStatus">>,
            <<"1", "berSynchronNummer">>,
            <<"8", "MACKONTROLLE">>,
            <<"1", "Version KKONTROLLE">> >>
    [] tag = 134 ->
         << <<"2", "">>,
            <<"2", "hersteller.organisationsNummer">>,
            <<"B", "NM-Spezifikations-version">>,
            <<"4", "Herstellerspezifische Versionsnummer">> >>
    [] tag = 131 ->
         << <<"4", "berechtigungNummer">>,
            <<"2", "ber.organisationsNummer">>,
            <<"2", "produktNummer">>,
            <<"2", "produkt.organisationsNummer">>,
            <<"2", "prodKeyOrganisation_ID">>,
            <<"D", "berGueltigkeitsbeginn">>,
            <<"D", "berGueltigkeitsende">> >>
    [] tag = 132 ->
         << <<"1", "berStatus">>,
            <<"1", "berSynchronNummer">> >>
    [] tag = 219 ->
         << <<"1", "efsFahrgastGeschlecht">>,
            <<"H", "efsFahrgastGeburtsdatum">>,
            <<"S", "efsFahrgastName">> >>
    [] tag = 220 ->
         << <<"1", "Typ">>,
            <<"2", "pv.organisationsNummer">> >>
    [] tag = 195 ->
         << <<"1", "LogTransaktionsTyp">>,
            <<"1", "Zeiger">> >>
    [] tag = 139 ->
         << <<"2", "berLogSeqNummer">>,
            <<"4", "berechtigungNummer">>,
            <<"2", "ber.organisationsNummer">>,
            <<"2", "produktNummer">>,
            <<"2", "produkt.organisationsNummer">>,
            <<"2", "Linie_ID.linienNummer">>,
            <<"1", "VariantenNummer">>,
            <<"3", "fahrtNummer">>,
            <<"2", "Organisation_ID.organisationsNummer">> >>

\* A four-byte number is kept as its two 16-bit halves <<high, low>>: it
\* may exceed the largest integer of the model checker. (b1<<24) + (b2<<16) +
\* (b3<<8) + b4:
U32(b1, b2, b3, b4) == <<b1 * 256 + b2, b3 * 256 + b4>>

\* dt >> n of such a number, for 1 <= n <= 31.
Shr(dt, n) ==
  IF n >= 16 THEN dt[1] \div Pow(2, n - 16)
  ELSE dt[1] * Pow(2, 16 - n) + dt[2] \div Pow(2, n)

\* _decode_datetimecompact with the month taken one bit too low.
decode_datetimecompact_month_shift(dt) ==
  << Shr(dt, 16 + 9) + 1990,
     Shr(dt, 16 + 4) % 16,
     Shr(dt, 16) % 32,
     Shr(dt, 11) % 32,
     Shr(dt, 5) % 64,
     (dt[2] % 32) * 2 >>

\* VdvKaDecoder._decode_datetimecompact: (year, month, day, hour, min, sec)
decode_datetimecompact(dt) ==
  << Shr(dt, 16 + 9) + 1990,
     Shr(dt, 16 + 5) % 16,
     Shr(dt, 16) % 32,
     Shr(dt, 11) % 32,
     Shr(dt, 5) % 64,
     (dt[2] % 32) * 2 >>

\* "%0<w>d" % n as character codes: the decimal digits, padded with zeros to
\* at least w characters.
RECURSIVE Decimal(_, _)
Decimal(n, w) ==
  IF n < 10 /\ w <= 1 THEN <<48 + n>>
  ELSE Append(Decimal(n \div 10, w - 1), 48 + (n % 10))

\* "%04d-%02d-%02d %02d:%02d:%02d" % val as character codes.
FormatDateTime(val) ==
  Decimal(val[1], 4) \o <<45>> \o Decimal(val[2], 2) \o <<45>>
  \o Decimal(val[3], 2) \o <<32>> \o Decimal(val[4], 2) \o <<58>>
  \o Decimal(val[5], 2) \o <<58>> \o Decimal(val[6], 2)

\* How many bytes a data type takes from the iterator; "S" takes what is
\* left.
FieldWidth(type, left) ==
  CASE type = "1" -> 1
    [] type = "2" -> 2
    [] type = "3" -> 3
    [] type = "4" -> 4
    [] type = "8" -> 8
    [] type = "B" -> 2
    [] type = "D" -> 4
    [] type = "H" -> 4
    [] type = "S" -> left

\* The value of a field from its bytes b. A number is the one-element
\* sequence of it (a four-byte number its two halves), a string the sequence
\* of what it is rendered from: the bytes of a hex string, of a hex date and
\* of a string, and the character codes of a date and time.
FieldValue(type, b) ==
  CASE type = "1" -> <<b[1]>>
    [] type = "2" -> <<b[1] * 256 + b[2]>>
    [] type = "3" -> <<b[1] * 65536 + b[2] * 256 + b[3]>>
    [] type = "4" -> U32(b[1], b[2], b[3], b[4])
    [] type = "8" -> b
    [] type = "B" -> b
    [] type = "D" ->
         FormatDateTime(decode_datetimecompact(U32(b[1], b[2], b[3], b[4])))
    [] type = "H" -> b
    [] type = "S" -> b

\* VdvKaDecoder._decode_internal: the loop over the fields from the i-th on,
\* with the iterator at pos. next(idata) on an exhausted iterator raises
\* StopIteration, which nothing in the class catches. No name occurs twice in
\* a definition, so result[name] = val appends.
RECURSIVE decode_loop(_, _, _, _, _)
decode_loop(bytes, pos, fdef, i, result) ==
  IF i > Len(fdef) THEN [isNone |-> FALSE, raised |-> "none", result |-> result]
  ELSE LET type == fdef[i][1]
           name == fdef[i][2]
           w == FieldWidth(type, Len(bytes) - pos + 1)
       IN IF pos + w - 1 > Len(bytes)
          THEN [isNone |-> FALSE, raised |-> "StopIteration", result |-> <<>>]
          ELSE LET val == FieldValue(type, SubSeq(bytes, pos, pos + w - 1)) IN
               decode_loop(bytes, pos + w, fdef, i + 1,
                           IF name # ""
                           THEN Append(result, [name |-> name, val |-> val])
                           ELSE result)

decode_internal(bytes, fdef) == decode_loop(bytes, 1, fdef, 1, <<>>)

NoneDecoded == [isNone |-> TRUE, raised |-> "none", result |-> <<>>]

\* VdvKaDecoder.decode: None on the KeyError of a tag without fields.
decode(tag, bytes) ==
  IF tag \in FieldTags THEN decode_internal(bytes, Fields(tag))
  ELSE NoneDecoded

(***************************************************************************)
(* BerTlv._pretty_print_internal and pretty_print (lines 257-276).         *)
(***************************************************************************)
\* A printed line: what it shows (a constructed node, a leaf with its bytes,
\* a decoded field, the error of a failed read, the empty line), its
\* indentation, and the tag, the name and the value it prints.
Line(kind, indent, tag, name, val) ==
  [kind |-> kind, indent |-> indent, tag |-> tag, name |-> name, val |-> val]

\* The lines of the fields of a decoded leaf, from the i-th on.
RECURSIVE field_lines(_, _, _, _)
field_lines(result, i, tag, indent) ==
  IF i > Len(result) THEN <<>>
  ELSE <<Line("field", indent + 1, tag, result[i].name, result[i].val)>>
       \o field_lines(result, i + 1, tag, indent)

\* The for loop of _pretty_print_internal from the i-th triple on, after the
\* lines printed so far. An exception of VdvKaDecoder.decode leaves the loop
\* and every caller: what was printed before it stays printed.
RECURSIVE pretty_print_loop(_, _, _, _, _, _)
pretty_print_loop(nodes, i, with_names, with_details, indent, lines) ==
  IF i > Len(nodes) THEN [raised |-> "none", out |-> lines]
  ELSE LET tag == nodes[i].tag
           value == nodes[i].value
           tag_name == IF with_names THEN get_tag_name(tag) ELSE ""
       IN IF is_nested_tlv(value)
          THEN LET inner ==
                     pretty_print_loop(value.sub, 1, with_names, with_details,
                       indent + 1,
                       Append(lines, Line("nested", indent, tag, tag_name, <<>>)))
               IN IF inner.raised # "none" THEN inner
                  ELSE pretty_print_loop(nodes, i + 1, with_names, with_details,
                                         indent, inner.out)
          ELSE LET printed ==
                     Append(lines, Line("leaf", indent, tag, tag_name, value.raw))
                   dec == IF with_details THEN decode(tag, value.raw)
                          ELSE NoneDecoded
               IN IF dec.raised # "none"
                  THEN [raised |-> dec.raised, out |-> printed]
                  ELSE pretty_print_loop(nodes, i + 1, with_names, with_details,
                         indent,
                         printed \o field_lines(dec.result, 1, tag, indent))

pretty_print_internal(d, with_names, with_details, indent) ==
  pretty_print_loop(d.sub, 1, with_names, with_details, indent, <<>>)

pretty_print(self, with_names, with_details) ==
  pretty_print_internal(self, with_names, with_details, 0)

(***************************************************************************)
(* pretty_print_block (lines 303-318): the claims C6 and C7.               *)
(***************************************************************************)
\* The heuristic of line 310. None.get_child and None.get_value raise the
\* AttributeError the try catches; None[0] raises TypeError and b''[0]
\* raises IndexError, which it does not catch.
is_tlv_efs(t) ==
  LET ber == get_child(t, BERECHTIGUNG)
      sep == get_child(ber.bertlv, BERECHTIGUNG_SEPARATE_DATEN)
      prod == get_value(sep.bertlv, BERECHTIGUNG_PRODUKTSPEZIFISCH)
  IN IF ber.isNone \/ sep.isNone THEN [raised |-> "none", efs |-> FALSE]
     ELSE IF prod.isNone THEN [raised |-> "TypeError", efs |-> FALSE]
     ELSE IF prod.bytes = <<>> THEN [raised |-> "IndexError", efs |-> FALSE]
     ELSE [raised |-> "none", efs |-> (prod.bytes[1] \div 16) * 16 = 208]

\* The blocks a read returns: an optional 0xE8 with an optional leaf and an
\* optional 0xEA of up to MaxItems elements, then an optional leaf. The
\* leaves are a 0x9B (one four-byte field) with two and with four bytes;
\* the elements of 0xEA are a 0x85 that starts with 0xDA, one that does not,
\* an empty one, a pointer, and the two 0x9B.
ShortLeaf == <<155, 2, 1, 2>>
GoodLeaf == <<155, 4, 1, 2, 3, 4>>
SepItems ==
  {<<133, 2, 218, 0>>, <<133, 1, 16>>, <<133, 0>>, <<192, 1, 5>>,
   ShortLeaf, GoodLeaf}

RECURSIVE Concat(_)
Concat(ss) == IF ss = <<>> THEN <<>> ELSE Head(ss) \o Concat(Tail(ss))

SepBlocks ==
  {Wrap(BERECHTIGUNG_SEPARATE_DATEN, Concat(q)) :
     q \in UNION {[1..k -> SepItems] : k \in 0..MaxItems}}

BerBlocks ==
  {Wrap(BERECHTIGUNG, leaf \o sep) :
     leaf \in {<<>>, ShortLeaf, GoodLeaf}, sep \in SepBlocks \cup {<<>>}}

Blocks ==
  {ber \o leaf : ber \in BerBlocks \cup {<<>>},
                 leaf \in {<<>>, ShortLeaf, GoodLeaf}}

\* pretty_print_block(response, sw1, sw2) has been called.
InitBlock ==
  /\ pc = "block"
  /\ data \in Blocks
  /\ sw \in {<<144, 0>>, <<106, 130>>}
  /\ bertlv = PyEmpty
  /\ tlvefs_hack = FALSE
  /\ raised = "none"
  /\ elems = <<>>
  /\ out = <<>>
  /\ decoded = NoneDecoded
  /\ NavIdle /\ ChainIdle

PrettyPrintBlock ==
  /\ pc = "block"
  /\ pc' = "printed"
  /\ IF success(sw[1], sw[2])
     THEN LET t == BerTlv(PyRaw(data))
              h == is_tlv_efs(t)
              reparsed == IF h.efs THEN PyNested(parse_internal(data, TRUE))
                          ELSE t
              printed == pretty_print(reparsed, TRUE, TRUE)
          IN IF h.raised # "none"
             THEN /\ bertlv' = t
                  /\ tlvefs_hack' = FALSE
                  /\ raised' = h.raised
                  /\ out' = out
             ELSE /\ bertlv' = reparsed
                  /\ tlvefs_hack' = h.efs
                  /\ raised' = printed.raised
                  /\ out' = out \o printed.out
                            \o (IF printed.raised = "none"
                                THEN <<Line("empty", 0, 0, "", <<>>)>>
                                ELSE <<>>)
     ELSE /\ out' = out \o <<Line("error", 0, 0, "Fehler", sw),
                              Line("empty", 0, 0, "", <<>>)>>
          /\ UNCHANGED <<bertlv, tlvefs_hack, raised>>
  /\ UNCHANGED <<data, elems, sw, decoded, navVars, chainVars>>

NextBlock == PrettyPrintBlock

SpecBlock == InitBlock /\ [][NextBlock]_vars

\* The first direct leaf child with the tag, as value(tag) is to return it.
LeafValue(self, tag) ==
  LET Test(n) == n.tag = tag /\ n.value.sub = <<>>
      leaves == SelectSeq(self.sub, Test)
  IN IF leaves = <<>> THEN None
     ELSE [isNone |-> FALSE, bertlv |-> PyEmpty, bytes |-> leaves[1].value.raw]

\* The path of the heuristic in the default parse of the block: a constructed
\* 0xE8 holding a constructed 0xEA holding a leaf 0x85 whose first byte is in
\* 0xD0..0xDF.
EfsPath ==
  LET t == PyNested(parse_internal(data, FALSE))
      ber == NthChild(t, 232, 0)
      sep == NthChild(ber.bertlv, 234, 0)
      prod == LeafValue(sep.bertlv, 133)
  IN /\ ~ber.isNone /\ ~sep.isNone /\ ~prod.isNone
     /\ prod.bytes # <<>>
     /\ prod.bytes[1] \in 208..223

\* C6: for a block read with status 0x9000 the block is parsed again in
\* TLV-EFS mode exactly when the path of the heuristic is there, and a path
\* that is absent at any step (no 0xE8, no 0xEA, no 0x85 leaf, an empty 0x85
\* leaf) means 'no' and raises nothing.
C6_HeuristicAbsentMeansNo ==
  (pc = "printed" /\ sw = <<144, 0>>) =>
    /\ raised \notin {"AttributeError", "TypeError", "IndexError"}
    /\ tlvefs_hack <=> EfsPath

RECURSIVE NodeCount(_)
NodeCount(nodes) ==
  IF nodes = <<>> THEN 0
  ELSE 1 + NodeCount(Head(nodes).value.sub) + NodeCount(Tail(nodes))

NodeLines == {i \in 1..Len(out) : out[i].kind \in {"nested", "leaf"}}

\* A leaf that has fields and fewer bytes than they take.
IsShortLeaf(n) ==
  /\ n.value.sub = <<>>
  /\ n.tag \in FieldTags
  /\ decode(n.tag, n.value.raw).raised # "none"

\* C7: a leaf with fewer bytes than its fields take raises nothing past the
\* printer: every node of the tree is printed, the short leaf with its bytes
\* and without fields.
C7_ShortLeafSkipped ==
  (pc = "printed" /\ sw = <<144, 0>> /\ raised \notin {"TypeError", "IndexError"}) =>
    /\ raised = "none"
    /\ Cardinality(NodeLines) = NodeCount(bertlv.sub)
    /\ \A i \in 1..Len(out) :
         out[i].kind = "field" =>
           \A n \in NodesOf(bertlv.sub) : IsShortLeaf(n) => out[i].tag # n.tag

(***************************************************************************)
(* The DateTimeCompact fields of a leaf: the claim C10.                    *)
(***************************************************************************)
BERECHTIGUNG_STATISCH == 131

\* The bytes of a date and time: all bits clear, all set, the bytes of
\* 0x3C 0x8C 0x61 0x00, and single bits at the borders of the fields.
DateBytes == {0, 1, 31, 60, 97, 128, 140, 255}

\* VdvKaDecoder.decode(Tag.BERECHTIGUNG_STATISCH, data) is about to be
\* called on twelve bytes of numbers and the same four bytes twice, as begin
\* and as end of the validity.
InitDate ==
  /\ pc = "decode"
  /\ \E d \in [1..4 -> DateBytes] :
       data = <<0, 0, 0, 1, 0, 2, 0, 3, 0, 4, 0, 5>> \o d \o d
  /\ bertlv = PyEmpty
  /\ tlvefs_hack = FALSE
  /\ raised = "none"
  /\ elems = <<>>
  /\ sw = <<144, 0>>
  /\ out = <<>>
  /\ decoded = NoneDecoded
  /\ NavIdle /\ ChainIdle

Decode ==
  /\ pc = "decode"
  /\ decoded' = decode(BERECHTIGUNG_STATISCH, data)
  /\ raised' = decoded'.raised
  /\ pc' = "decoded"
  /\ UNCHANGED <<treeVars, sw, out, navVars, chainVars>>

NextDate == Decode

SpecDate == InitDate /\ [][NextDate]_vars

\* The fields of the four bytes b as the specification places them:
\* bits 31..25 the years since 1990, 24..21 the month, 20..16 the day,
\* 15..11 the hour, 10..5 the minute, 4..0 half the seconds.
DateFields(b) ==
  << 1990 + b[1] \div 2,
     (b[1] % 2) * 8 + b[2] \div 32,
     b[2] % 32,
     b[3] \div 8,
     (b[3] % 8) * 8 + b[4] \div 32,
     2 * (b[4] % 32) >>

\* C10: the date and time decoded from four bytes is the six bit fields of
\* the 32-bit big-endian number, the seconds doubled, with no value refused,
\* and the same bytes decode to the same date and time again.
C10_DateTimeCompact ==
  pc = "decoded" =>
    /\ decoded.raised = "none"
    /\ Len(decoded.result) = 7
    /\ decoded.result[6].name = "berGueltigkeitsbeginn"
    /\ decoded.result[6].val = FormatDateTime(DateFields(SubSeq(data, 13, 16)))
    /\ decoded.result[7].name = "berGueltigkeitsende"
    /\ decoded.result[7].val = decoded.result[6].val

\* 0x3C 0x8C 0x61 0x00 has been decoded to "2020-04-12 12:08:00".
C10_Witness ==
  /\ pc = "decoded"
  /\ SubSeq(data, 13, 16) = <<60, 140, 97, 0>>
  /\ decoded.result[6].val =
       <<50, 48, 50, 48, 45, 48, 52, 45, 49, 50, 32,
         49, 50, 58, 48, 56, 58, 48, 48>>

====
